---- MODULE Spec2Model ----
(***************************************************************************)
(* Model of rnote's bitmap-image stroke (rnote-engine, strokes/            *)
(* bitmapimage.rs) and of the export command of rnote-cli (cli.rs).        *)
(*                                                                         *)
(* Numbers: every f64 of the source is modelled as an exact rational       *)
(* <<n, d>> in lowest terms with d > 0 (floating-point rounding is not     *)
(* modelled; the one explicit rounding of the source, f64::round, is).     *)
(***************************************************************************)
EXTENDS Integers, Sequences, FiniteSets, TLC

VARIABLES
    \* ---- BitmapImage::draw -------------------------------------------
    cx,          \* the piet render context: saved-state stack, transform, drawn images
    cxEntry,     \* the context as it was when draw was entered
    drawSelf,    \* the BitmapImage being drawn (self)
    drawPc,      \* position inside draw
    drawRet,     \* what draw returned: "none" | "Ok" | "Err"
    nDraws       \* number of draw calls issued on this context

VARIABLES
    \* ---- BitmapImage::gen_images -------------------------------------
    genSelf,     \* the BitmapImage (self)
    genViewport, \* argument viewport
    genScale,    \* argument image_scale
    genPc,       \* "idle" | "call" | "done"
    genOut       \* the returned Result<GeneratedStrokeImages>

VARIABLES
    \* ---- BitmapImage::import_from_image_bytes ------------------------
    imgBytes,    \* argument bytes: an encoded image, or malformed bytes
    imgPos,      \* argument pos
    imgSize,     \* argument size: Option<Vector2>
    imgConvOk,   \* whether the conversion to premultiplied RGBA will succeed
    imgPc,       \* "idle" | "call" | "done"
    imgOut       \* the returned Result<BitmapImage>

VARIABLES
    \* ---- a BitmapImage under translate / rotate / scale --------------
    stroke,      \* the BitmapImage
    strokeNew,   \* the BitmapImage as it was constructed
    nOps         \* number of transform operations applied so far

VARIABLES
    \* ---- BitmapImage::import_from_pdf_bytes --------------------------
    to_be_read,       \* argument: the PDF bytes (a document of pages, or malformed)
    pdf_import_prefs, \* argument: page_width_perc, bitmap_scalefactor, page_spacing
    insert_pos,       \* argument
    page_range_arg,   \* argument page_range: Option<Range<u32>>
    format,           \* argument: the document's page format
    page_range,       \* local: the range after unwrap_or(0..n_pages)
    page_zoom,        \* local
    page_i,           \* the page the page loop is at
    y,                \* local: the vertical accumulator
    pngs,             \* local: (png_data, pos, size) of the pages rendered so far
    decoded,          \* parallel stage: item index -> Some(result of its decode) once finished
    completed,        \* parallel stage: item indices in the order their decodes finished
    pdfLog,           \* what log::error! recorded
    pdfPc,            \* "idle" | "open" | "pages" | "decode" | "done"
    pdfOut            \* the returned Result<Vec<BitmapImage>>

VARIABLES
    \* ---- rnote-cli: create_doc_export_prefs_from_args ----------------
    output_file_arg,   \* argument output_file: Option<path>
    output_format_arg, \* argument output_format: Option<&str>
    with_background,   \* argument: Option<bool>
    with_pattern,      \* argument: Option<bool>
    prefsPc,           \* "idle" | "call" | "done"
    prefsOut           \* the returned Result<DocExportPrefs>

VARIABLES
    \* ---- rnote-cli: run, the Export command --------------------------
    cli,               \* the parsed command line (Commands::Export)
    doc_export_prefs,  \* engine.export_prefs.doc_export_prefs
    output_files,      \* local of the batch branch
    file_i,            \* index of the file the batch loop is at
    attempts,          \* the calls of export_to_file so far: (rnote_file, output)
    stdout,            \* what println! wrote
    progress,          \* the progress bars' final states
    runPc,             \* position inside run
    runRet             \* what run returned: "none" | "Ok" | "Err"

drawVars == <<cx, cxEntry, drawSelf, drawPc, drawRet, nDraws>>
genVars == <<genSelf, genViewport, genScale, genPc, genOut>>
imgVars == <<imgBytes, imgPos, imgSize, imgConvOk, imgPc, imgOut>>
strokeVars == <<stroke, strokeNew, nOps>>
pdfArgs == <<to_be_read, pdf_import_prefs, insert_pos, page_range_arg, format>>
pdfVars == <<pdfArgs, page_range, page_zoom, page_i, y, pngs, decoded, completed, pdfLog,
             pdfPc, pdfOut>>

prefsVars == <<output_file_arg, output_format_arg, with_background, with_pattern, prefsPc, prefsOut>>
cliVars == <<cli, doc_export_prefs, output_files, file_i, attempts, stdout, progress, runPc, runRet>>

vars == <<drawVars, genVars, imgVars, strokeVars, pdfVars, prefsVars, cliVars>>

allButDraw == <<genVars, imgVars, strokeVars, pdfVars, prefsVars, cliVars>>
allButGen == <<drawVars, imgVars, strokeVars, pdfVars, prefsVars, cliVars>>
allButImg == <<drawVars, genVars, strokeVars, pdfVars, prefsVars, cliVars>>
allButStroke == <<drawVars, genVars, imgVars, pdfVars, prefsVars, cliVars>>
allButPdf == <<drawVars, genVars, imgVars, strokeVars, prefsVars, cliVars>>
allButPrefs == <<drawVars, genVars, imgVars, strokeVars, pdfVars, cliVars>>
allButCli == <<drawVars, genVars, imgVars, strokeVars, pdfVars, prefsVars>>

None == [some |-> FALSE]
Some(v) == [some |-> TRUE, val |-> v]

IdleDraw ==
    /\ cx = [stack |-> <<>>, transform |-> "-", drawn |-> <<>>]
    /\ cxEntry = cx
    /\ drawSelf = "-"
    /\ drawPc = "idle"
    /\ drawRet = "none"
    /\ nDraws = 0

IdleGen ==
    /\ genSelf = "-"
    /\ genViewport = "-"
    /\ genScale = 0
    /\ genPc = "idle"
    /\ genOut = "-"

IdleImg ==
    /\ imgBytes = "-"
    /\ imgPos = "-"
    /\ imgSize = "-"
    /\ imgConvOk = FALSE
    /\ imgPc = "idle"
    /\ imgOut = "-"

IdleStroke ==
    /\ stroke = "-"
    /\ strokeNew = "-"
    /\ nOps = 0

IdlePdf ==
    /\ to_be_read = "-"
    /\ pdf_import_prefs = "-"
    /\ insert_pos = "-"
    /\ page_range_arg = "-"
    /\ format = "-"
    /\ page_range = "-"
    /\ page_zoom = "-"
    /\ page_i = 0
    /\ y = "-"
    /\ pngs = <<>>
    /\ decoded = <<>>
    /\ completed = <<>>
    /\ pdfLog = <<>>
    /\ pdfPc = "idle"
    /\ pdfOut = "-"

IdlePrefs ==
    /\ output_file_arg = "-"
    /\ output_format_arg = "-"
    /\ with_background = "-"
    /\ with_pattern = "-"
    /\ prefsPc = "idle"
    /\ prefsOut = "-"

IdleCli ==
    /\ cli = "-"
    /\ doc_export_prefs = "-"
    /\ output_files = <<>>
    /\ file_i = 0
    /\ attempts = <<>>
    /\ stdout = <<>>
    /\ progress = <<>>
    /\ runPc = "idle"
    /\ runRet = "none"

(***************************************************************************)
(* Bounds of the model.                                                    *)
(***************************************************************************)
MaxDraws == 2

(***************************************************************************)
(* Exact rational arithmetic standing for f64.                             *)
(***************************************************************************)
Abs(i) == IF i < 0 THEN -i ELSE i

RECURSIVE GCD(_, _)
GCD(a, b) == IF b = 0 THEN a ELSE GCD(b, a % b)

Norm(n, d) ==
    LET s == IF d < 0 THEN -1 ELSE 1
        g == GCD(Abs(n), Abs(d))
    IN  <<(s * n) \div g, (s * d) \div g>>

R(i) == <<i, 1>>
RAdd(a, b) == Norm(a[1] * b[2] + b[1] * a[2], a[2] * b[2])
RNeg(a) == <<-a[1], a[2]>>
RSub(a, b) == RAdd(a, RNeg(b))
RMul(a, b) == Norm(a[1] * b[1], a[2] * b[2])
RDiv(a, b) == Norm(a[1] * b[2], a[2] * b[1])
RAbs(a) == <<Abs(a[1]), a[2]>>
RLe(a, b) == a[1] * b[2] <= b[1] * a[2]
RLt(a, b) == a[1] * b[2] < b[1] * a[2]
RMax(a, b) == IF RLe(a, b) THEN b ELSE a
RMin(a, b) == IF RLe(a, b) THEN a ELSE b
Half == <<1, 2>>

\* f64::round: to the nearest integer, halves away from zero
RRound(a) ==
    IF a[1] >= 0 THEN (2 * a[1] + a[2]) \div (2 * a[2])
    ELSE -((2 * (-a[1]) + a[2]) \div (2 * a[2]))

\* 2-vectors of rationals
V(a, b) == <<R(a), R(b)>>
VAdd(u, v) == <<RAdd(u[1], v[1]), RAdd(u[2], v[2])>>
VSub(u, v) == <<RSub(u[1], v[1]), RSub(u[2], v[2])>>
VScale(u, k) == <<RMul(u[1], k), RMul(u[2], k)>>

(***************************************************************************)
(* Affine maps: m is the linear part <<m11, m12, m21, m22>>, t the         *)
(* translation.                                                            *)
(***************************************************************************)
AffIdentity == [m |-> <<R(1), R(0), R(0), R(1)>>, t |-> V(0, 0)]

AffApplyLinear(A, v) ==
    <<RAdd(RMul(A.m[1], v[1]), RMul(A.m[2], v[2])),
      RAdd(RMul(A.m[3], v[1]), RMul(A.m[4], v[2]))>>

AffApply(A, p) == VAdd(AffApplyLinear(A, p), A.t)

\* A * B: first B, then A
AffMul(A, B) ==
    [m |-> <<RAdd(RMul(A.m[1], B.m[1]), RMul(A.m[2], B.m[3])),
             RAdd(RMul(A.m[1], B.m[2]), RMul(A.m[2], B.m[4])),
             RAdd(RMul(A.m[3], B.m[1]), RMul(A.m[4], B.m[3])),
             RAdd(RMul(A.m[3], B.m[2]), RMul(A.m[4], B.m[4]))>>,
     t |-> AffApply(A, B.t)]

AffTranslation(v) == [m |-> AffIdentity.m, t |-> v]

(***************************************************************************)
(* p2d Aabb.                                                               *)
(***************************************************************************)
Aabb(mins, maxs) == [mins |-> mins, maxs |-> maxs]

\* Aabb::contains: self.mins <= other.mins && self.maxs >= other.maxs, componentwise
AabbContains(self, other) ==
    /\ RLe(self.mins[1], other.mins[1]) /\ RLe(self.mins[2], other.mins[2])
    /\ RLe(other.maxs[1], self.maxs[1]) /\ RLe(other.maxs[2], self.maxs[2])

\* Aabb::intersection: sup of the mins, inf of the maxs; None when a min exceeds a max
AabbIntersection(self, other) ==
    LET mins == <<RMax(self.mins[1], other.mins[1]), RMax(self.mins[2], other.mins[2])>>
        maxs == <<RMin(self.maxs[1], other.maxs[1]), RMin(self.maxs[2], other.maxs[2])>>
    IN  IF RLt(maxs[1], mins[1]) \/ RLt(maxs[2], mins[2])
        THEN None
        ELSE Some(Aabb(mins, maxs))

(***************************************************************************)
(* rnote_compose Rectangle: a cuboid (half extents) under a transform.     *)
(***************************************************************************)
Rectangle(half_extents, affine) == [cuboid |-> half_extents, transform |-> affine]

\* Rectangle::bounds: centre = affine * origin, half extents = |linear part| * cuboid half extents
RectangleBounds(rect) ==
    LET A == rect.transform
        center == AffApply(A, V(0, 0))
        absA == [m |-> <<RAbs(A.m[1]), RAbs(A.m[2]), RAbs(A.m[3]), RAbs(A.m[4])>>, t |-> V(0, 0)]
        he == AffApplyLinear(absA, rect.cuboid)
    IN  Aabb(VSub(center, he), VAdd(center, he))

\* Rectangle::translate: transform.append_translation_mut(offset)
RectangleTranslate(rect, offset) ==
    [rect EXCEPT !.transform = AffMul(AffTranslation(offset), @)]

\* Rectangle::rotate by a quarter-turn multiple (cos, sin in {-1, 0, 1}) about center
RectangleRotate(rect, cos, sin, center) ==
    LET rot == [m |-> <<R(cos), R(-sin), R(sin), R(cos)>>, t |-> V(0, 0)]
        about == AffMul(AffTranslation(center),
                        AffMul(rot, AffTranslation(<<RNeg(center[1]), RNeg(center[2])>>)))
    IN  [rect EXCEPT !.transform = AffMul(about, @)]

\* Rectangle::scale: transform.append_scale_mut(scale)
RectangleScale(rect, scale) ==
    [rect EXCEPT !.transform =
        AffMul([m |-> <<scale[1], R(0), R(0), scale[2]>>, t |-> V(0, 0)], @)]

(***************************************************************************)
(* render::Image and BitmapImage.                                          *)
(***************************************************************************)
MemoryFormats == {"R8g8b8a8Premultiplied", "B8g8r8a8Premultiplied"}

Image(w, h, fmt, data) ==
    [pixel_width |-> w, pixel_height |-> h, memory_format |-> fmt, data |-> data]

BitmapImage(image, rectangle) == [image |-> image, rectangle |-> rectangle]

\* piet::ImageFormat::try_from(memory_format): only premultiplied RGBA converts
PietImageFormat(memory_format) ==
    IF memory_format = "R8g8b8a8Premultiplied"
    THEN [ok |-> TRUE, val |-> "RgbaPremul"]
    ELSE [ok |-> FALSE]

(***************************************************************************)
(* BitmapImage::draw, one action per statement.                            *)
(***************************************************************************)
DrawStrokes ==
    { BitmapImage(Image(2, 2, fmt, "px"), Rectangle(V(1, 1), AffTranslation(V(tx, 1)))) :
        fmt \in MemoryFormats, tx \in {0, 1} }

InitDraw ==
    /\ cx = [stack |-> <<>>, transform |-> AffIdentity, drawn |-> <<>>]
    /\ cxEntry = cx
    /\ drawSelf = CHOOSE s \in DrawStrokes : TRUE
    /\ drawPc = "idle"
    /\ drawRet = "none"
    /\ nDraws = 0
    /\ IdleGen /\ IdleImg /\ IdleStroke /\ IdlePdf /\ IdlePrefs /\ IdleCli

\* a caller invokes self.draw(cx, image_scale)
DrawCall ==
    /\ drawPc \in {"idle", "done"}
    /\ nDraws < MaxDraws
    /\ \E s \in DrawStrokes : drawSelf' = s
    /\ cxEntry' = cx
    /\ drawPc' = "save"
    /\ drawRet' = "none"
    /\ nDraws' = nDraws + 1
    /\ UNCHANGED cx
    /\ UNCHANGED allButDraw

\* cx.save().map_err(..)?
DrawSave ==
    /\ drawPc = "save"
    /\ \E ok \in BOOLEAN :
        IF ok
        THEN /\ cx' = [cx EXCEPT !.stack = Append(@, cx.transform)]
             /\ drawPc' = "format"
             /\ UNCHANGED drawRet
        ELSE /\ drawPc' = "done"
             /\ drawRet' = "Err"
             /\ UNCHANGED cx
    /\ UNCHANGED <<cxEntry, drawSelf, nDraws>>
    /\ UNCHANGED allButDraw

\* let piet_image_format = piet::ImageFormat::try_from(self.image.memory_format)?
DrawFormat ==
    /\ drawPc = "format"
    /\ IF PietImageFormat(drawSelf.image.memory_format).ok
       THEN /\ drawPc' = "transform"
            /\ UNCHANGED drawRet
       ELSE /\ drawPc' = "done"
            /\ drawRet' = "Err"
    /\ UNCHANGED <<cx, cxEntry, drawSelf, nDraws>>
    /\ UNCHANGED allButDraw

\* cx.transform(self.rectangle.transform.affine.to_kurbo())
DrawTransform ==
    /\ drawPc = "transform"
    /\ cx' = [cx EXCEPT !.transform = AffMul(@, drawSelf.rectangle.transform)]
    /\ drawPc' = "make_image"
    /\ UNCHANGED <<cxEntry, drawSelf, drawRet, nDraws>>
    /\ UNCHANGED allButDraw

\* let piet_image = cx.make_image(..).map_err(..)?
DrawMakeImage ==
    /\ drawPc = "make_image"
    /\ \E ok \in BOOLEAN :
        IF ok
        THEN /\ drawPc' = "draw_image"
             /\ UNCHANGED drawRet
        ELSE /\ drawPc' = "done"
             /\ drawRet' = "Err"
    /\ UNCHANGED <<cx, cxEntry, drawSelf, nDraws>>
    /\ UNCHANGED allButDraw

\* cx.draw_image(&piet_image, dest_rect, Bilinear)
DrawDrawImage ==
    /\ drawPc = "draw_image"
    /\ cx' = [cx EXCEPT !.drawn = Append(@,
                 [ctm |-> cx.transform,
                  dest |-> Aabb(<<RNeg(drawSelf.rectangle.cuboid[1]), RNeg(drawSelf.rectangle.cuboid[2])>>,
                                drawSelf.rectangle.cuboid)])]
    /\ drawPc' = "restore"
    /\ UNCHANGED <<cxEntry, drawSelf, drawRet, nDraws>>
    /\ UNCHANGED allButDraw

\* cx.restore().map_err(..)?; Ok(())
DrawRestore ==
    /\ drawPc = "restore"
    /\ \E ok \in BOOLEAN :
        IF ok
        THEN /\ cx' = [cx EXCEPT !.transform = cx.stack[Len(cx.stack)],
                                 !.stack = SubSeq(@, 1, Len(@) - 1)]
             /\ drawRet' = "Ok"
        ELSE /\ drawRet' = "Err"
             /\ UNCHANGED cx
    /\ drawPc' = "done"
    /\ UNCHANGED <<cxEntry, drawSelf, nDraws>>
    /\ UNCHANGED allButDraw

NextDraw ==
    \/ DrawCall
    \/ DrawSave
    \/ DrawFormat
    \/ DrawTransform
    \/ DrawMakeImage
    \/ DrawDrawImage
    \/ DrawRestore

SpecDraw == InitDraw /\ [][NextDraw]_vars

(* C1: whenever draw has returned, by any exit path, the context has the   *)
(* saved-state depth and the transform it had when draw was entered.       *)
DrawBracketsContext ==
    drawPc = "done" =>
        /\ Len(cx.stack) = Len(cxEntry.stack)
        /\ cx.transform = cxEntry.transform

(***************************************************************************)
(* BitmapImage: ShapeBehaviour, TransformBehaviour, import_from_image_bytes *)
(***************************************************************************)
\* bounds(): self.rectangle.bounds()
BoundsFromImage(self) ==
    Aabb(V(0, 0), V(self.image.pixel_width, self.image.pixel_height))

Bounds(self) == RectangleBounds(self.rectangle)

\* hitboxes(): vec![self.bounds()]
Hitboxes(self) == <<Bounds(self)>>

\* translate / rotate / scale: forwarded to the rectangle
Translate(self, offset) ==
    [self EXCEPT !.rectangle = RectangleTranslate(@, offset)]

Rotate(self, cos, sin, center) ==
    [self EXCEPT !.rectangle = RectangleRotate(@, cos, sin, center)]

Scale(self, scale) ==
    [self EXCEPT !.rectangle = RectangleScale(@, scale)]

\* the Rectangle literal of import_from_image_bytes: cuboid of half extents size * 0.5
\* under the isometry translating by pos + size * 0.5, rotation 0
RectangleAtCentredOnPos(pos, size) ==
    Rectangle(VScale(size, Half), AffTranslation(pos))

RectangleAt(pos, size) ==
    Rectangle(VScale(size, Half), AffTranslation(VAdd(pos, VScale(size, Half))))

\* render::Image::try_from_encoded_bytes: decodes into premultiplied RGBA of the
\* encoded pixel size; malformed bytes are an error
TryFromEncodedBytes(bytes) ==
    IF bytes.wellformed
    THEN [ok |-> TRUE, val |-> Image(bytes.w, bytes.h, bytes.fmt, bytes.data)]
    ELSE [ok |-> FALSE]

\* Image::convert_to_rgba8pre: both memory formats convert; the conversion itself can fail
ConvertToRgba8pre(image, convOk) ==
    IF convOk
    THEN [ok |-> TRUE, val |-> [image EXCEPT !.memory_format = "R8g8b8a8Premultiplied"]]
    ELSE [ok |-> FALSE]

\* import_from_image_bytes(bytes, pos, size); convOk: whether the conversion succeeds
ImportFromImageBytes(bytes, pos, size, convOk) ==
    LET image0 == TryFromEncodedBytes(bytes)
    IN  IF ~image0.ok THEN [ok |-> FALSE]
        ELSE LET converted == ConvertToRgba8pre(image0.val, convOk)
             IN  IF ~converted.ok THEN [ok |-> FALSE]
                 ELSE LET image == converted.val
                          sz == IF size.some THEN size.val
                                ELSE V(image.pixel_width, image.pixel_height)
                      IN  [ok |-> TRUE, val |-> BitmapImage(image, RectangleAt(pos, sz))]

(***************************************************************************)
(* BitmapImage::gen_images                                                 *)
(***************************************************************************)
GridMax == 3
Grid == 0 .. GridMax
ImageScales == {1, 2}

\* render::Image::gen_with_piet(|cx| self.draw(cx, image_scale), bounds, image_scale):
\* the image rendered for `bounds`; an error when the draw closure or the backend fails
GenWithPiet(self, bounds, image_scale, backendOk) ==
    IF backendOk /\ PietImageFormat(self.image.memory_format).ok
    THEN [ok |-> TRUE, val |-> [of |-> self.image.data, bounds |-> bounds, image_scale |-> image_scale]]
    ELSE [ok |-> FALSE]

GenImagesUnclipped(self, viewport, image_scale, backendOk) ==
    LET bounds == Bounds(self)
        img == GenWithPiet(self, bounds, image_scale, backendOk)
    IN  IF AabbContains(viewport, bounds)
        THEN IF img.ok THEN [tag |-> "Full", images |-> <<img.val>>] ELSE [tag |-> "Err"]
        ELSE IF AabbIntersection(viewport, bounds).some
        THEN IF img.ok THEN [tag |-> "Partial", images |-> <<img.val>>, viewport |-> viewport]
             ELSE [tag |-> "Err"]
        ELSE [tag |-> "Partial", images |-> <<>>, viewport |-> viewport]

GenImages(self, viewport, image_scale, backendOk) ==
    LET bounds == Bounds(self)
        inter == AabbIntersection(viewport, bounds)
    IN  IF AabbContains(viewport, bounds)
        THEN LET img == GenWithPiet(self, bounds, image_scale, backendOk)
             IN  IF img.ok THEN [tag |-> "Full", images |-> <<img.val>>] ELSE [tag |-> "Err"]
        ELSE IF inter.some
        THEN LET img == GenWithPiet(self, inter.val, image_scale, backendOk)
             IN  IF img.ok
                 THEN [tag |-> "Partial", images |-> <<img.val>>, viewport |-> viewport]
                 ELSE [tag |-> "Err"]
        ELSE [tag |-> "Partial", images |-> <<>>, viewport |-> viewport]

\* strokes and viewports with corners on the grid
GenStrokes ==
    { BitmapImage(Image(1, 1, fmt, "px"), RectangleAt(V(gx, gy), V(w, h))) :
        fmt \in MemoryFormats, gx \in Grid, gy \in Grid, w \in 1 .. 2, h \in 1 .. 2 }

GenViewports ==
    { Aabb(V(x0, y0), V(x1, y1)) : x0 \in Grid, y0 \in Grid, x1 \in Grid, y1 \in Grid }

InitGen ==
    /\ genSelf \in { s \in GenStrokes :
                        /\ RLe(Bounds(s).maxs[1], R(GridMax))
                        /\ RLe(Bounds(s).maxs[2], R(GridMax)) }
    /\ genViewport \in { v \in GenViewports : RLe(v.mins[1], v.maxs[1]) /\ RLe(v.mins[2], v.maxs[2]) }
    /\ genScale \in ImageScales
    /\ genPc = "call"
    /\ genOut = "-"
    /\ IdleDraw /\ IdleImg /\ IdleStroke /\ IdlePdf /\ IdlePrefs /\ IdleCli

GenImagesCall ==
    /\ genPc = "call"
    /\ \E backendOk \in BOOLEAN :
        genOut' = GenImages(genSelf, genViewport, R(genScale), backendOk)
    /\ genPc' = "done"
    /\ UNCHANGED <<genSelf, genViewport, genScale>>
    /\ UNCHANGED allButGen

NextGen == GenImagesCall

SpecGen == InitGen /\ [][NextGen]_vars

\* the grid points of a box, and the geometric relations between boxes as point sets
PointsOf(box) ==
    { p \in Grid \X Grid :
        /\ RLe(box.mins[1], R(p[1])) /\ RLe(R(p[1]), box.maxs[1])
        /\ RLe(box.mins[2], R(p[2])) /\ RLe(R(p[2]), box.maxs[2]) }

(* C2: when rendering succeeds, gen_images returns Full with one image iff *)
(* the viewport contains the stroke's bounds, Partial with no image iff    *)
(* the two do not intersect, and otherwise Partial with one image for      *)
(* exactly the intersection; every Partial echoes the viewport.            *)
GenImagesByViewport ==
    (genPc = "done" /\ genOut.tag # "Err") =>
        LET inBounds == PointsOf(RectangleBounds(genSelf.rectangle))
            inView == PointsOf(genViewport)
            contained == inBounds \subseteq inView
            disjoint == inBounds \cap inView = {}
        IN  /\ (genOut.tag = "Full" /\ Len(genOut.images) = 1) <=> contained
            /\ (genOut.tag = "Partial" /\ Len(genOut.images) = 0) <=> disjoint
            /\ (~contained /\ ~disjoint) =>
                    /\ genOut.tag = "Partial"
                    /\ Len(genOut.images) = 1
                    /\ PointsOf(genOut.images[1].bounds) = inBounds \cap inView
                    /\ genOut.images[1].image_scale = R(genScale)
            /\ genOut.tag = "Partial" => genOut.viewport = genViewport

GenImagesPartialReached ==
    /\ genPc = "done"
    /\ genOut.tag = "Partial"
    /\ Len(genOut.images) = 1
    /\ genOut.images[1].bounds # RectangleBounds(genSelf.rectangle)
    /\ ~AabbContains(genViewport, RectangleBounds(genSelf.rectangle))

(***************************************************************************)
(* import_from_image_bytes as an operation                                 *)
(***************************************************************************)
MaxPixels == 2

EncodedBytes ==
    { [wellformed |-> TRUE, w |-> w, h |-> h, fmt |-> fmt, data |-> "px"] :
        w \in 1 .. MaxPixels, h \in 1 .. MaxPixels, fmt \in MemoryFormats }
    \cup { [wellformed |-> FALSE] }

ImportPositions == { V(px, py) : px \in {-1, 0, 2}, py \in {0, 3} }

ImportSizes == { V(1, 2), V(3, 1), <<<<3, 2>>, <<5, 2>>>> }

InitImg ==
    /\ imgBytes \in EncodedBytes
    /\ imgPos \in ImportPositions
    /\ imgSize \in {None} \cup { Some(sz) : sz \in ImportSizes }
    /\ imgConvOk \in BOOLEAN
    /\ imgPc = "call"
    /\ imgOut = "-"
    /\ IdleDraw /\ IdleGen /\ IdleStroke /\ IdlePdf /\ IdlePrefs /\ IdleCli

ImportFromImageBytesCall ==
    /\ imgPc = "call"
    /\ imgOut' = ImportFromImageBytes(imgBytes, imgPos, imgSize, imgConvOk)
    /\ imgPc' = "done"
    /\ UNCHANGED <<imgBytes, imgPos, imgSize, imgConvOk>>
    /\ UNCHANGED allButImg

NextImg == ImportFromImageBytesCall

SpecImg == InitImg /\ [][NextImg]_vars

(* C9: import_from_image_bytes succeeds exactly when decoding and the      *)
(* conversion succeed; the stroke's rectangle is then unrotated, has its   *)
(* top-left corner at pos and its extent equal to the explicit size, or to *)
(* the decoded pixel width and height when no size is given; otherwise the *)
(* call returns an error and no stroke.                                    *)
ImportPlacesRectangleAtPos ==
    imgPc = "done" =>
        IF imgBytes.wellformed /\ imgConvOk
        THEN /\ imgOut.ok
             /\ LET rect == imgOut.val.rectangle
                    size == IF imgSize.some THEN imgSize.val ELSE V(imgBytes.w, imgBytes.h)
                IN  /\ rect.transform.m = <<R(1), R(0), R(0), R(1)>>
                    /\ VSub(rect.transform.t, rect.cuboid) = imgPos
                    /\ VAdd(rect.cuboid, rect.cuboid) = size
                    /\ RectangleBounds(rect) = Aabb(imgPos, VAdd(imgPos, size))
             /\ imgOut.val.image.pixel_width = imgBytes.w
             /\ imgOut.val.image.pixel_height = imgBytes.h
        ELSE imgOut = [ok |-> FALSE]

ImportWithoutSizeReached ==
    /\ imgPc = "done"
    /\ imgOut.ok
    /\ ~imgSize.some
    /\ imgBytes.w # imgBytes.h
    /\ imgPos # V(0, 0)

(***************************************************************************)
(* A BitmapImage under sequences of translate, rotate and scale            *)
(***************************************************************************)
MaxOps == 3

StrokeImages == { Image(w, h, "R8g8b8a8Premultiplied", "px") : w \in {1, 4}, h \in {2} }

InitStroke ==
    /\ stroke \in { BitmapImage(img, RectangleAt(V(1, 0), V(2, 1))) : img \in StrokeImages }
    /\ strokeNew = stroke
    /\ nOps = 0
    /\ IdleDraw /\ IdleGen /\ IdleImg /\ IdlePdf /\ IdlePrefs /\ IdleCli

StrokeTranslate ==
    /\ nOps < MaxOps
    /\ \E offset \in {V(1, 0), V(0, -2)} : stroke' = Translate(stroke, offset)
    /\ nOps' = nOps + 1
    /\ UNCHANGED strokeNew
    /\ UNCHANGED allButStroke

StrokeRotate ==
    /\ nOps < MaxOps
    /\ \E turn \in {<<0, 1>>, <<-1, 0>>, <<0, -1>>}, center \in {V(0, 0), V(1, 1)} :
        stroke' = Rotate(stroke, turn[1], turn[2], center)
    /\ nOps' = nOps + 1
    /\ UNCHANGED strokeNew
    /\ UNCHANGED allButStroke

StrokeScale ==
    /\ nOps < MaxOps
    /\ \E scale \in {V(2, 1), <<Half, R(3)>>} : stroke' = Scale(stroke, scale)
    /\ nOps' = nOps + 1
    /\ UNCHANGED strokeNew
    /\ UNCHANGED allButStroke

NextStroke ==
    \/ StrokeTranslate
    \/ StrokeRotate
    \/ StrokeScale

SpecStroke == InitStroke /\ [][NextStroke]_vars

(* C10: after any sequence of translate, rotate and scale, bounds() is the *)
(* rectangle's bounds, hitboxes() is the one-element sequence [bounds()],  *)
(* neither changes when the image's metadata is replaced, and the image is *)
(* the one the stroke was constructed with.                                *)
BoundsAreRectangleBounds ==
    /\ Bounds(stroke) = RectangleBounds(stroke.rectangle)
    /\ Hitboxes(stroke) = <<RectangleBounds(stroke.rectangle)>>
    /\ \A img \in StrokeImages :
        /\ Bounds([stroke EXCEPT !.image = img]) = Bounds(stroke)
        /\ Hitboxes([stroke EXCEPT !.image = img]) = Hitboxes(stroke)
    /\ stroke.image = strokeNew.image

TransformedStrokeReached ==
    /\ nOps = MaxOps
    /\ stroke.rectangle.transform.m # AffIdentity.m
    /\ stroke.rectangle.transform.t # strokeNew.rectangle.transform.t
    /\ Bounds(stroke) # Bounds(strokeNew)

(***************************************************************************)
(* BitmapImage::import_from_pdf_bytes                                      *)
(***************************************************************************)
MaxPages == 3
ImportOffsetDefaultY == 32

\* intrinsic page sizes (width, height) the documents are made of
PageSizes == {<<2, 3>>, <<4, 1>>}

RECURSIVE SeqsUpTo(_, _)
SeqsUpTo(S, n) ==
    IF n = 0 THEN {<<>>}
    ELSE LET shorter == SeqsUpTo(S, n - 1)
         IN  shorter \cup { Append(q, e) : q \in { t \in shorter : Len(t) = n - 1 }, e \in S }

PdfDocuments ==
    { [wellformed |-> TRUE, pages |-> ps] : ps \in SeqsUpTo(PageSizes, MaxPages) }
    \cup { [wellformed |-> FALSE] }

PageRanges ==
    {None} \cup { Some([start |-> s, end |-> e]) : s \in 0 .. MaxPages + 1, e \in 0 .. MaxPages + 1 }

PageSpacings == {"Continuous", "OnePerDocumentPage"}

\* doc.page(i): the page at index i, None outside 0 .. n_pages - 1
DocPageClamped(doc, i) ==
    IF Len(doc.pages) = 0 THEN None
    ELSE IF i < Len(doc.pages) THEN Some(doc.pages[i + 1])
    ELSE Some(doc.pages[Len(doc.pages)])

DocPage(doc, i) ==
    IF 0 <= i /\ i < Len(doc.pages) THEN Some(doc.pages[i + 1]) ELSE None

\* the advance of y after a page of zoomed height `height`
PageAdvanceByPageHeight(page_spacing, height, fmt) ==
    IF page_spacing = "Continuous"
    THEN RAdd(height, RMul(R(ImportOffsetDefaultY), Half))
    ELSE height

PageAdvance(page_spacing, height, fmt) ==
    IF page_spacing = "Continuous"
    THEN RAdd(height, RMul(R(ImportOffsetDefaultY), Half))
    ELSE R(fmt.height)

\* the closure `res`: renders page page_i_ of intrinsic size `intrinsic_size` and encodes
\* it; `failure` is the first of its fallible steps that fails, or "none"
RenderFailures == {"surface", "context", "paint", "stroke", "png"}

\* the closure reading y only when it runs, after the advance of its own page
RenderPageAfterAdvance(page_i_, intrinsic_size, zoom, prefs, x_, y_, failure) ==
    LET width == RMul(R(intrinsic_size[1]), zoom)
        height == RMul(R(intrinsic_size[2]), zoom)
        surface_width == RRound(RMul(width, prefs.bitmap_scalefactor))
        surface_height == RRound(RMul(height, prefs.bitmap_scalefactor))
    IN  IF failure # "none" THEN [ok |-> FALSE, err |-> failure]
        ELSE [ok |-> TRUE,
              val |-> [png_data |-> [wellformed |-> TRUE, w |-> surface_width,
                                     h |-> surface_height, fmt |-> "R8g8b8a8Premultiplied",
                                     data |-> page_i_],
                       pos |-> <<x_, RAdd(y_, RAdd(height, RMul(R(ImportOffsetDefaultY), Half)))>>,
                       size |-> <<width, height>>]]

\* every page fitted to the page width by a zoom of its own
RenderPageFittedToWidth(page_i_, intrinsic_size, zoom, prefs, x_, y_, failure) ==
    LET own_zoom == RDiv(RMul(R(format.width), RDiv(R(prefs.page_width_perc), R(100))),
                         R(intrinsic_size[1]))
        width == RMul(R(intrinsic_size[1]), own_zoom)
        height == RMul(R(intrinsic_size[2]), own_zoom)
        surface_width == RRound(RMul(width, prefs.bitmap_scalefactor))
        surface_height == RRound(RMul(height, prefs.bitmap_scalefactor))
    IN  IF failure # "none" THEN [ok |-> FALSE, err |-> failure]
        ELSE [ok |-> TRUE,
              val |-> [png_data |-> [wellformed |-> TRUE, w |-> surface_width,
                                     h |-> surface_height, fmt |-> "R8g8b8a8Premultiplied",
                                     data |-> page_i_],
                       pos |-> <<x_, y_>>,
                       size |-> <<width, height>>]]

RenderPage(page_i_, intrinsic_size, zoom, prefs, x_, y_, failure) ==
    LET width == RMul(R(intrinsic_size[1]), zoom)
        height == RMul(R(intrinsic_size[2]), zoom)
        surface_width == RRound(RMul(width, prefs.bitmap_scalefactor))
        surface_height == RRound(RMul(height, prefs.bitmap_scalefactor))
    IN  IF failure # "none" THEN [ok |-> FALSE, err |-> failure]
        ELSE [ok |-> TRUE,
              val |-> [png_data |-> [wellformed |-> TRUE, w |-> surface_width,
                                     h |-> surface_height, fmt |-> "R8g8b8a8Premultiplied",
                                     data |-> page_i_],
                       pos |-> <<x_, y_>>,
                       size |-> <<width, height>>]]

\* the match on res(): an Ok is kept, an Err is logged and skipped
PngsAfterAbortingOnErr(pngs_, res) ==
    IF res.ok THEN Append(pngs_, res.val) ELSE <<>>

PngsAfter(pngs_, res) ==
    IF res.ok THEN Append(pngs_, res.val) ELSE pngs_

\* collect() of the parallel filter_map: the Some results, in item order
RECURSIVE CollectInCompletionOrder(_, _)
CollectInCompletionOrder(decoded_, completed_) ==
    IF completed_ = <<>> THEN <<>>
    ELSE LET r == decoded_[Head(completed_)].val
             rest == CollectInCompletionOrder(decoded_, Tail(completed_))
         IN  IF r.ok THEN <<r.val>> \o rest ELSE rest

RECURSIVE CollectFrom(_, _)
CollectFrom(decoded_, i) ==
    IF i > Len(decoded_) THEN <<>>
    ELSE IF decoded_[i].val.ok THEN <<decoded_[i].val.val>> \o CollectFrom(decoded_, i + 1)
    ELSE CollectFrom(decoded_, i + 1)

Collect(decoded_, completed_) == CollectFrom(decoded_, 1)

InitPdf ==
    /\ to_be_read \in PdfDocuments
    /\ pdf_import_prefs \in
         { [page_width_perc |-> 50, bitmap_scalefactor |-> <<3, 2>>, page_spacing |-> sp] :
             sp \in PageSpacings }
    /\ insert_pos = V(1, 2)
    /\ page_range_arg \in PageRanges
    /\ format = [width |-> 4, height |-> 5]
    /\ page_range = "-"
    /\ page_zoom = "-"
    /\ page_i = 0
    /\ y = "-"
    /\ pngs = <<>>
    /\ decoded = <<>>
    /\ completed = <<>>
    /\ pdfLog = <<>>
    /\ pdfPc = "open"
    /\ pdfOut = "-"
    /\ IdleDraw /\ IdleGen /\ IdleImg /\ IdleStroke /\ IdlePrefs /\ IdleCli

\* lines 166-177: parse, resolve the range, compute the zoom from the first page
PdfOpen ==
    /\ pdfPc = "open"
    /\ IF ~to_be_read.wellformed
       THEN /\ pdfOut' = [ok |-> FALSE]
            /\ pdfPc' = "done"
            /\ UNCHANGED <<page_range, page_zoom, page_i, y>>
       ELSE LET range == IF page_range_arg.some THEN page_range_arg.val
                         ELSE [start |-> 0, end |-> Len(to_be_read.pages)]
                page_width == RMul(R(format.width),
                                   RDiv(R(pdf_import_prefs.page_width_perc), R(100)))
                first_page == DocPage(to_be_read, 0)
            IN  /\ page_range' = range
                /\ IF first_page.some
                   THEN /\ page_zoom' = RDiv(page_width, R(first_page.val[1]))
                        /\ page_i' = range.start
                        /\ y' = insert_pos[2]
                        /\ pdfPc' = "pages"
                        /\ UNCHANGED pdfOut
                   ELSE /\ pdfOut' = [ok |-> TRUE, val |-> <<>>]
                        /\ pdfPc' = "done"
                        /\ UNCHANGED <<page_zoom, page_i, y>>
    /\ UNCHANGED <<pdfArgs, pngs, decoded, completed, pdfLog>>
    /\ UNCHANGED allButPdf

\* lines 180-262: the filter_map closure on the next page of the range
PdfPage ==
    /\ pdfPc = "pages"
    /\ page_i < page_range.end
    /\ LET page == DocPage(to_be_read, page_i)
       IN  IF ~page.some
           THEN UNCHANGED <<y, pngs, pdfLog>>
           ELSE \E failure \in {"none"} \cup RenderFailures :
                   LET height == RMul(R(page.val[2]), page_zoom)
                       res == RenderPage(page_i, page.val, page_zoom, pdf_import_prefs,
                                         insert_pos[1], y, failure)
                   IN  /\ y' = RAdd(y, PageAdvance(pdf_import_prefs.page_spacing, height, format))
                       /\ pngs' = PngsAfter(pngs, res)
                       /\ pdfLog' = IF res.ok THEN pdfLog
                                    ELSE Append(pdfLog, [at |-> "page", page |-> page_i,
                                                         err |-> res.err])
    /\ page_i' = page_i + 1
    /\ UNCHANGED <<pdfArgs, page_range, page_zoom, decoded, completed, pdfPc, pdfOut>>
    /\ UNCHANGED allButPdf

\* line 263: the range is exhausted, pngs is collected and handed to into_par_iter
PdfPagesDone ==
    /\ pdfPc = "pages"
    /\ page_i >= page_range.end
    /\ decoded' = [i \in 1 .. Len(pngs) |-> None]
    /\ pdfPc' = "decode"
    /\ UNCHANGED <<pdfArgs, page_range, page_zoom, page_i, y, pngs, completed, pdfLog, pdfOut>>
    /\ UNCHANGED allButPdf

\* lines 267-279: some worker finishes the closure on some not yet decoded item
PdfDecode ==
    /\ pdfPc = "decode"
    /\ \E i \in 1 .. Len(pngs), convOk \in BOOLEAN :
        /\ ~decoded[i].some
        /\ LET r == ImportFromImageBytes(pngs[i].png_data, pngs[i].pos, Some(pngs[i].size), convOk)
           IN  /\ decoded' = [decoded EXCEPT ![i] = Some(r)]
               /\ pdfLog' = IF r.ok THEN pdfLog
                            ELSE Append(pdfLog, [at |-> "decode", page |-> pngs[i].png_data.data,
                                                 err |-> "import_from_image_bytes"])
        /\ completed' = Append(completed, i)
    /\ UNCHANGED <<pdfArgs, page_range, page_zoom, page_i, y, pngs, pdfPc, pdfOut>>
    /\ UNCHANGED allButPdf

\* line 280: every item is decoded; collect() and return Ok
PdfCollect ==
    /\ pdfPc = "decode"
    /\ \A i \in 1 .. Len(pngs) : decoded[i].some
    /\ pdfOut' = [ok |-> TRUE, val |-> Collect(decoded, completed)]
    /\ pdfPc' = "done"
    /\ UNCHANGED <<pdfArgs, page_range, page_zoom, page_i, y, pngs, decoded, completed, pdfLog>>
    /\ UNCHANGED allButPdf

NextPdf ==
    \/ PdfOpen
    \/ PdfPage
    \/ PdfPagesDone
    \/ PdfDecode
    \/ PdfCollect

SpecPdf == InitPdf /\ [][NextPdf]_vars

\* the pages of the resolved range that exist in the document
RangePages ==
    { p \in page_range.start .. page_range.end - 1 : p < Len(to_be_read.pages) }

\* the pages for which a failure was logged, at either stage
FailedPages == { pdfLog[n].page : n \in 1 .. Len(pdfLog) }

\* the page a returned stroke shows, its top-left corner and its extent
StrokePage(s) == s.image.data
StrokeTopLeft(s) == VSub(s.rectangle.transform.t, s.rectangle.cuboid)
StrokeExtent(s) == VAdd(s.rectangle.cuboid, s.rectangle.cuboid)

(* C3: a failure while processing a page skips only that page: on a parsed *)
(* document the call returns Ok, every existing page of the range has been *)
(* processed, and the result holds exactly one stroke for each of them     *)
(* that did not fail and none for the others.                              *)
PageFailureSkipsOnlyThatPage ==
    (pdfPc = "done" /\ to_be_read.wellformed) =>
        /\ pdfOut.ok
        /\ Len(to_be_read.pages) > 0 =>
            LET out == pdfOut.val
            IN  /\ page_i >= page_range.end
                /\ { StrokePage(out[j]) : j \in 1 .. Len(out) } = RangePages \ FailedPages
                /\ Len(out) = Cardinality(RangePages \ FailedPages)
                /\ \A n \in 1 .. Len(pdfLog) : pdfLog[n].page \in RangePages

MiddlePageFailedReached ==
    /\ pdfPc = "done"
    /\ pdfOut.ok
    /\ Len(to_be_read.pages) = 3
    /\ RangePages = {0, 1, 2}
    /\ \E n \in 1 .. Len(pdfLog) : pdfLog[n].at = "page" /\ pdfLog[n].page = 1
    /\ Len(pdfOut.val) = 2
    /\ StrokePage(pdfOut.val[1]) = 0
    /\ StrokePage(pdfOut.val[2]) = 2

(* C4: with page spacing OnePerDocumentPage the k-th page of the range is  *)
(* placed at (insert_pos.x, insert_pos.y + k * format.height), whatever    *)
(* the pages' heights and whether or not earlier pages failed.             *)
OnePerDocumentPagePlacement ==
    (pdfPc \in {"pages", "decode", "done"} /\ to_be_read.wellformed
        /\ pdf_import_prefs.page_spacing = "OnePerDocumentPage") =>
        LET slot(p) == <<insert_pos[1],
                         RAdd(insert_pos[2], R((p - page_range.start) * format.height))>>
        IN  /\ \A i \in 1 .. Len(pngs) : pngs[i].pos = slot(pngs[i].png_data.data)
            /\ (pdfPc = "done" /\ pdfOut.ok) =>
                \A j \in 1 .. Len(pdfOut.val) :
                    StrokeTopLeft(pdfOut.val[j]) = slot(StrokePage(pdfOut.val[j]))

PlacedAfterFailedPageReached ==
    /\ pdfPc = "done"
    /\ pdfOut.ok
    /\ pdf_import_prefs.page_spacing = "OnePerDocumentPage"
    /\ page_range.start = 1
    /\ Len(pdfOut.val) = 1
    /\ StrokePage(pdfOut.val[1]) = 2
    /\ \E n \in 1 .. Len(pdfLog) : pdfLog[n].at = "page" /\ pdfLog[n].page = 1
    /\ to_be_read.pages[2] # to_be_read.pages[3]

(* C5: on a parsed document with no page, or with a page range none of     *)
(* whose pages exists in the document, the call returns Ok with an empty   *)
(* stroke sequence.                                                        *)
EmptyImportIsNotAnError ==
    (pdfPc = "done" /\ to_be_read.wellformed) =>
        LET n_pages == Len(to_be_read.pages)
            outOfBounds == /\ page_range_arg.some
                           /\ \A p \in page_range_arg.val.start .. page_range_arg.val.end - 1 :
                                p >= n_pages
        IN  (n_pages = 0 \/ outOfBounds) => pdfOut = [ok |-> TRUE, val |-> <<>>]

OutOfBoundsRangeReached ==
    /\ pdfPc = "done"
    /\ to_be_read.wellformed
    /\ Len(to_be_read.pages) = 3
    /\ page_range_arg.some
    /\ page_range_arg.val.start >= 3
    /\ page_range_arg.val.end > page_range_arg.val.start
    /\ pdfOut.ok

(* C6: whatever the order in which the parallel decodes finish, the result *)
(* is the rendered pages in increasing page order with the items whose     *)
(* decode failed removed, each stroke at the position and with the size    *)
(* recorded for its page.                                                  *)
DecodeKeepsPageOrder ==
    (pdfPc = "done" /\ pdfOut.ok) =>
        LET out == pdfOut.val
            kept == { i \in 1 .. Len(decoded) : decoded[i].val.ok }
        IN  /\ Len(out) = Cardinality(kept)
            /\ \A i \in 1 .. Len(pngs), k \in 1 .. Len(pngs) :
                i < k => pngs[i].png_data.data < pngs[k].png_data.data
            /\ \A j \in 1 .. Len(out), k \in 1 .. Len(out) :
                j < k => StrokePage(out[j]) < StrokePage(out[k])
            /\ \A i \in kept : \E j \in 1 .. Len(out) :
                /\ StrokePage(out[j]) = pngs[i].png_data.data
                /\ StrokeTopLeft(out[j]) = pngs[i].pos
                /\ StrokeExtent(out[j]) = pngs[i].size

OutOfOrderDecodeReached ==
    /\ pdfPc = "done"
    /\ pdfOut.ok
    /\ Len(pngs) = 3
    /\ completed = <<3, 2, 1>>
    /\ ~decoded[2].val.ok
    /\ Len(pdfOut.val) = 2

\* the zoomed height of page q plus half the default import offset, summed over
\* the pages from .. upto - 1
RECURSIVE ContinuousOffset(_, _, _, _)
ContinuousOffset(doc, zoom, from, upto) ==
    IF upto <= from THEN R(0)
    ELSE RAdd(ContinuousOffset(doc, zoom, from, upto - 1),
              RAdd(RMul(R(doc.pages[upto][2]), zoom), RDiv(R(ImportOffsetDefaultY), R(2))))

(* C11: with page spacing Continuous the accumulator y holds insert_pos.y  *)
(* plus, for every existing page of the range processed so far, failed or  *)
(* not, that page's zoomed height plus half the default import offset; the *)
(* position recorded for a page, and the top-left corner of its stroke, is *)
(* the accumulator's value before that page's own advance.                 *)
ContinuousPlacement ==
    (pdfPc \in {"pages", "decode", "done"} /\ to_be_read.wellformed
        /\ Len(to_be_read.pages) > 0
        /\ pdf_import_prefs.page_spacing = "Continuous") =>
        LET n_pages == Len(to_be_read.pages)
            processed == IF page_i < n_pages THEN page_i ELSE n_pages
            before(p) == <<insert_pos[1],
                           RAdd(insert_pos[2],
                                ContinuousOffset(to_be_read, page_zoom, page_range.start, p))>>
        IN  /\ y = before(processed)[2]
            /\ \A i \in 1 .. Len(pngs) : pngs[i].pos = before(pngs[i].png_data.data)
            /\ (pdfPc = "done" /\ pdfOut.ok) =>
                \A j \in 1 .. Len(pdfOut.val) :
                    StrokeTopLeft(pdfOut.val[j]) = before(StrokePage(pdfOut.val[j]))

GapAfterFailedPageReached ==
    /\ pdfPc = "done"
    /\ pdfOut.ok
    /\ pdf_import_prefs.page_spacing = "Continuous"
    /\ page_range.start = 0
    /\ Len(to_be_read.pages) = 3
    /\ to_be_read.pages[1][2] # to_be_read.pages[2][2]
    /\ \E n \in 1 .. Len(pdfLog) : pdfLog[n].at = "page" /\ pdfLog[n].page = 1
    /\ Len(pdfOut.val) = 2
    /\ StrokePage(pdfOut.val[1]) = 0
    /\ StrokePage(pdfOut.val[2]) = 2
    /\ RLt(RAdd(StrokeTopLeft(pdfOut.val[1])[2], StrokeExtent(pdfOut.val[1])[2]),
           StrokeTopLeft(pdfOut.val[2])[2])

(* C12: one zoom, (format.width * page_width_perc / 100) divided by the    *)
(* first page's intrinsic width, is used for every page of the range: the  *)
(* size recorded for a page and the extent of its stroke are the page's    *)
(* intrinsic width and height times that zoom, so the first page's stroke  *)
(* is page_width_perc% of the document page width wide.                    *)
UniformZoomFromFirstPage ==
    (pdfPc \in {"pages", "decode", "done"} /\ to_be_read.wellformed
        /\ Len(to_be_read.pages) > 0) =>
        LET target == RDiv(R(format.width * pdf_import_prefs.page_width_perc), R(100))
            zoom == RDiv(target, R(to_be_read.pages[1][1]))
            zoomed(p) == <<RMul(R(to_be_read.pages[p + 1][1]), zoom),
                           RMul(R(to_be_read.pages[p + 1][2]), zoom)>>
        IN  /\ page_zoom = zoom
            /\ \A i \in 1 .. Len(pngs) : pngs[i].size = zoomed(pngs[i].png_data.data)
            /\ (pdfPc = "done" /\ pdfOut.ok) =>
                \A j \in 1 .. Len(pdfOut.val) :
                    /\ StrokeExtent(pdfOut.val[j]) = zoomed(StrokePage(pdfOut.val[j]))
                    /\ StrokePage(pdfOut.val[j]) = 0 =>
                        StrokeExtent(pdfOut.val[j])[1] = target

MixedPageSizesReached ==
    /\ pdfPc = "done"
    /\ pdfOut.ok
    /\ Len(pdfOut.val) >= 2
    /\ StrokePage(pdfOut.val[1]) = 0
    /\ StrokePage(pdfOut.val[2]) = 1
    /\ to_be_read.pages[1][1] # to_be_read.pages[2][1]
    /\ StrokeExtent(pdfOut.val[2])[1] # StrokeExtent(pdfOut.val[1])[1]

(***************************************************************************)
(* rnote-cli.  A path or a string is a sequence of atoms: "." and "/" are  *)
(* the characters, every other atom is a run of characters holding neither. *)
(* No two different sequences over PathAtoms spell the same string.        *)
(***************************************************************************)
MaxPathLen == 3
MaxFiles == 3

PathAtoms == {"a", "svg", "xopp", "pdf", "SVG", ".", "/"}

\* the component of `path` that ends at index e starts here
ComponentStart(path, e) ==
    CHOOSE k \in 1 .. e :
        /\ \A j \in k .. e : path[j] # "/"
        /\ k = 1 \/ path[k - 1] = "/"

\* Path::file_name: the last component if it is a normal one; trailing separators and
\* "." components are skipped, a final ".." or an only "." or "/" gives None
RECURSIVE FileNameSpan(_, _)
FileNameSpan(path, e) ==
    IF e = 0 THEN None
    ELSE IF path[e] = "/" THEN FileNameSpan(path, e - 1)
    ELSE LET s == ComponentStart(path, e)
             comp == SubSeq(path, s, e)
         IN  IF comp = <<".">> THEN (IF s = 1 THEN None ELSE FileNameSpan(path, s - 1))
             ELSE IF comp = <<".", ".">> THEN None
             ELSE Some([start |-> s, end |-> e])

FileName(path) ==
    LET span == FileNameSpan(path, Len(path))
    IN  IF span.some THEN Some(SubSeq(path, span.val.start, span.val.end)) ELSE None

\* rsplit_file_at_dot: (before, after) the last dot; a name without dot, or with
\* nothing before its only dot, is all `before`
RsplitFileAtDot(file) ==
    LET dots == { k \in 1 .. Len(file) : file[k] = "." }
    IN  IF dots = {} THEN [before |-> None, after |-> Some(file)]
        ELSE LET d == CHOOSE k \in dots : \A j \in dots : j <= k
             IN  IF d = 1 THEN [before |-> Some(file), after |-> None]
                 ELSE [before |-> Some(SubSeq(file, 1, d - 1)),
                       after |-> Some(SubSeq(file, d + 1, Len(file)))]

\* Path::extension: before.and(after)
Extension(path) ==
    LET name == FileName(path)
    IN  IF ~name.some THEN None
        ELSE LET parts == RsplitFileAtDot(name.val)
             IN  IF parts.before.some THEN parts.after ELSE None

\* Path::file_stem: before.or(after)
FileStem(path) ==
    LET name == FileName(path)
    IN  IF ~name.some THEN None
        ELSE LET parts == RsplitFileAtDot(name.val)
             IN  IF parts.before.some THEN parts.before ELSE parts.after

\* PathBuf::set_extension: cut right after the file stem, then "." and the extension
SetExtension(path, ext) ==
    LET stem == FileStem(path)
    IN  IF ~stem.some THEN path
        ELSE LET span == FileNameSpan(path, Len(path)).val
                 cut == SubSeq(path, 1, span.start + Len(stem.val) - 1)
             IN  IF ext = <<>> THEN cut ELSE cut \o <<".">> \o ext

\* DocExportFormat::file_ext
FileExt(export_format) ==
    CASE export_format = "Svg" -> <<"svg">>
      [] export_format = "Xopp" -> <<"xopp">>
      [] export_format = "Pdf" -> <<"pdf">>

\* get_export_format
GetExportFormatIgnoringCase(fmt) ==
    CASE fmt \in {<<"svg">>, <<"SVG">>} -> [ok |-> TRUE, val |-> "Svg"]
      [] fmt = <<"xopp">> -> [ok |-> TRUE, val |-> "Xopp"]
      [] fmt = <<"pdf">> -> [ok |-> TRUE, val |-> "Pdf"]
      [] OTHER -> [ok |-> FALSE, err |-> "unsupported export file extension"]

GetExportFormat(fmt) ==
    CASE fmt = <<"svg">> -> [ok |-> TRUE, val |-> "Svg"]
      [] fmt = <<"xopp">> -> [ok |-> TRUE, val |-> "Xopp"]
      [] fmt = <<"pdf">> -> [ok |-> TRUE, val |-> "Pdf"]
      [] OTHER -> [ok |-> FALSE, err |-> "unsupported export file extension"]

\* DocExportPrefs::default()
DocExportPrefsDefault == [export_format |-> "Svg", with_background |-> TRUE, with_pattern |-> TRUE]

\* create_doc_export_prefs_from_args
CreateDocExportPrefsFromArgs(output_file, output_format, with_background_, with_pattern_) ==
    LET fmt ==
            IF output_file.some /\ ~output_format.some
            THEN LET extension == Extension(output_file.val)
                 IN  IF extension.some THEN GetExportFormat(extension.val)
                     ELSE [ok |-> FALSE, err |-> "Output file needs to have an extension"]
            ELSE IF ~output_file.some /\ output_format.some
            THEN GetExportFormat(output_format.val)
            ELSE IF output_file.some /\ output_format.some
            THEN [ok |-> FALSE, err |-> "--output-file and --output-format are mutually exclusive."]
            ELSE [ok |-> FALSE, err |-> "--output-file or --output-format is required."]
    IN  IF ~fmt.ok THEN fmt
        ELSE [ok |-> TRUE,
              val |-> [export_format |-> fmt.val,
                       with_background |-> IF with_background_.some THEN with_background_.val
                                           ELSE DocExportPrefsDefault.with_background,
                       with_pattern |-> IF with_pattern_.some THEN with_pattern_.val
                                        ELSE DocExportPrefsDefault.with_pattern]]

OptionBool == {None, Some(TRUE), Some(FALSE)}

FormatStrings ==
    { <<>>, <<"svg">>, <<"xopp">>, <<"pdf">>, <<"SVG">>, <<"a">>, <<".", "svg">>, <<"svg", "a">> }

InitPrefs ==
    /\ output_file_arg \in {None} \cup { Some(path) : path \in SeqsUpTo(PathAtoms, MaxPathLen) }
    /\ output_format_arg \in {None} \cup { Some(f) : f \in FormatStrings }
    /\ with_background \in OptionBool
    /\ with_pattern \in OptionBool
    /\ prefsPc = "call"
    /\ prefsOut = "-"
    /\ IdleDraw /\ IdleGen /\ IdleImg /\ IdleStroke /\ IdlePdf /\ IdleCli

CreateDocExportPrefsCall ==
    /\ prefsPc = "call"
    /\ prefsOut' = CreateDocExportPrefsFromArgs(output_file_arg, output_format_arg,
                                                with_background, with_pattern)
    /\ prefsPc' = "done"
    /\ UNCHANGED <<output_file_arg, output_format_arg, with_background, with_pattern>>
    /\ UNCHANGED allButPrefs

NextPrefs == CreateDocExportPrefsCall

SpecPrefs == InitPrefs /\ [][NextPrefs]_vars

SupportedFormats == {<<"svg">>, <<"xopp">>, <<"pdf">>}

\* `path` names a file "<stem>.<ext>", stem not empty, possibly followed by separators
\* and "." components
NamesFileWithExtension(path, ext) ==
    \E d \in 2 .. Len(path) :
        /\ path[d] = "."
        /\ path[d - 1] # "/"
        /\ d + Len(ext) <= Len(path)
        /\ SubSeq(path, d + 1, d + Len(ext)) = ext
        /\ LET rest == SubSeq(path, d + Len(ext) + 1, Len(path))
           IN  /\ rest # <<>> => rest[1] = "/"
               /\ \A k \in 1 .. Len(rest) : rest[k] \in {"/", "."}
               /\ \A k \in 1 .. Len(rest) - 1 : ~(rest[k] = "." /\ rest[k + 1] = ".")

FormatNamed(s) ==
    CASE s = <<"svg">> -> "Svg"
      [] s = <<"xopp">> -> "Xopp"
      [] s = <<"pdf">> -> "Pdf"

(* C8: create_doc_export_prefs_from_args returns Ok exactly when one of    *)
(* output_file and output_format is given and the file's extension,        *)
(* respectively the format string, is one of svg, xopp, pdf; the export    *)
(* format is then that one. Otherwise it returns an error with a message   *)
(* and no preferences.                                                     *)
PrefsOkIffOneSupportedTarget ==
    prefsPc = "done" =>
        LET onlyFile == output_file_arg.some /\ ~output_format_arg.some
            onlyFormat == ~output_file_arg.some /\ output_format_arg.some
            selected == { s \in SupportedFormats :
                            \/ onlyFile /\ NamesFileWithExtension(output_file_arg.val, s)
                            \/ onlyFormat /\ output_format_arg.val = s }
        IN  /\ prefsOut.ok <=> selected # {}
            /\ prefsOut.ok => selected = { s \in SupportedFormats :
                                             FormatNamed(s) = prefsOut.val.export_format }
            /\ ~prefsOut.ok => DOMAIN prefsOut = {"ok", "err"}

PrefsFromFileExtensionReached ==
    /\ prefsPc = "done"
    /\ prefsOut.ok
    /\ prefsOut.val.export_format = "Pdf"
    /\ output_file_arg.some
    /\ Len(output_file_arg.val) = 3

(***************************************************************************)
(* rnote-cli: run, the Export command                                      *)
(***************************************************************************)
RnoteFiles == { <<"a", ".", "a">>, <<"/", "a">>, <<".", ".">> }

\* clap's parse of `export`: exactly one of --output-file and --output-format
ExportCommands ==
    { [rnote_files |-> fs, output_file |-> o, output_format |-> f,
       with_background |-> None, with_pattern |-> Some(FALSE)] :
        fs \in SeqsUpTo(RnoteFiles, MaxFiles),
        o \in {None, Some(<<"a", ".", "pdf">>), Some(<<"a">>)},
        f \in {None, Some(<<"xopp">>), Some(<<"SVG">>)} }

\* export_to_file: fails at once when the output path has no file name, and otherwise
\* when reading, loading, exporting or writing fails (ioOk)
ExportToFile(rnote_file, output, ioOk) ==
    IF ~FileName(output).some THEN FALSE ELSE ioOk

\* what run returns after the export of the single file
SingleExportReturn(ok) == IF ok THEN "Ok" ELSE "Err"

\* the batch loop after the export of file i: `continue`, or the end of the body
BatchNextStoppingOnErr(i, ok) == IF ok THEN i + 1 ELSE MaxFiles + 2

BatchNext(i, ok) == i + 1

InitCli ==
    /\ cli \in { c \in ExportCommands : c.output_file.some # c.output_format.some }
    /\ doc_export_prefs = DocExportPrefsDefault
    /\ output_files = <<>>
    /\ file_i = 0
    /\ attempts = <<>>
    /\ stdout = <<>>
    /\ progress = <<>>
    /\ runPc = "prefs"
    /\ runRet = "none"
    /\ IdleDraw /\ IdleGen /\ IdleImg /\ IdleStroke /\ IdlePdf /\ IdlePrefs

\* lines 106-111: engine.export_prefs.doc_export_prefs = create_doc_export_prefs_from_args(..)?
RunPrefs ==
    /\ runPc = "prefs"
    /\ LET r == CreateDocExportPrefsFromArgs(cli.output_file, cli.output_format,
                                             cli.with_background, cli.with_pattern)
       IN  IF r.ok
           THEN /\ doc_export_prefs' = r.val
                /\ runPc' = IF cli.output_file.some THEN "single" ELSE "batch"
                /\ UNCHANGED runRet
           ELSE /\ runRet' = "Err"
                /\ runPc' = "done"
                /\ UNCHANGED doc_export_prefs
    /\ UNCHANGED <<cli, output_files, file_i, attempts, stdout, progress>>
    /\ UNCHANGED allButCli

\* lines 114-143: --output-file
RunExportSingle ==
    /\ runPc = "single"
    /\ IF Len(cli.rnote_files) # 1
       THEN /\ runRet' = "Err"
            /\ UNCHANGED <<attempts, stdout, progress>>
       ELSE \E ioOk \in BOOLEAN :
               LET file == cli.rnote_files[1]
                   output == cli.output_file.val
                   ok == ExportToFile(file, output, ioOk)
               IN  /\ attempts' = Append(attempts, [file |-> file, output |-> output, ok |-> ok])
                   /\ stdout' = stdout \o <<"Exporting..">> \o
                                 (IF ok THEN <<"Export finished!">> ELSE <<"Export failed">>)
                   /\ progress' = <<IF ok THEN "finished" ELSE "abandoned">>
                   /\ runRet' = SingleExportReturn(ok)
    /\ runPc' = "done"
    /\ UNCHANGED <<cli, doc_export_prefs, output_files, file_i>>
    /\ UNCHANGED allButCli

\* lines 145-179: --output-format: the output paths, the progress bars, "Exporting.."
RunBatchSetup ==
    /\ runPc = "batch"
    /\ output_files' = [i \in 1 .. Len(cli.rnote_files) |->
                            SetExtension(cli.rnote_files[i], FileExt(doc_export_prefs.export_format))]
    /\ progress' = [i \in 1 .. Len(cli.rnote_files) |-> "new"]
    /\ stdout' = Append(stdout, "Exporting..")
    /\ file_i' = 1
    /\ runPc' = "loop"
    /\ UNCHANGED <<cli, doc_export_prefs, attempts, runRet>>
    /\ UNCHANGED allButCli

\* lines 180-192: one iteration of the loop over the files
RunBatchFile ==
    /\ runPc = "loop"
    /\ file_i <= Len(cli.rnote_files)
    /\ \E ioOk \in BOOLEAN :
        LET file == cli.rnote_files[file_i]
            output == output_files[file_i]
            ok == ExportToFile(file, output, ioOk)
        IN  /\ attempts' = Append(attempts, [file |-> file, output |-> output, ok |-> ok])
            /\ progress' = [progress EXCEPT ![file_i] = IF ok THEN "finished" ELSE "abandoned"]
            /\ stdout' = IF ok THEN stdout ELSE Append(stdout, "Export failed")
            /\ file_i' = BatchNext(file_i, ok)
    /\ UNCHANGED <<cli, doc_export_prefs, output_files, runPc, runRet>>
    /\ UNCHANGED allButCli

\* lines 193-199: after the loop
RunBatchDone ==
    /\ runPc = "loop"
    /\ file_i > Len(cli.rnote_files)
    /\ stdout' = Append(stdout, "Export finished!")
    /\ runRet' = "Ok"
    /\ runPc' = "done"
    /\ UNCHANGED <<cli, doc_export_prefs, output_files, file_i, attempts, progress>>
    /\ UNCHANGED allButCli

NextCli ==
    \/ RunPrefs
    \/ RunExportSingle
    \/ RunBatchSetup
    \/ RunBatchFile
    \/ RunBatchDone

SpecCli == InitCli /\ [][NextCli]_vars

Count(seq, e) == Cardinality({ k \in 1 .. Len(seq) : seq[k] = e })

(* C7: a failing single-file export is reported and makes run return the  *)
(* error; in a batch export every input file is attempted exactly once, in *)
(* the given order, each failure is reported, and the batch ends with      *)
(* "Export finished!" and Ok.                                              *)
ExportFailureHandling ==
    (runPc = "done" /\ CreateDocExportPrefsFromArgs(cli.output_file, cli.output_format,
                                                    cli.with_background, cli.with_pattern).ok) =>
        IF cli.output_file.some
        THEN Len(cli.rnote_files) = 1 =>
                /\ Len(attempts) = 1
                /\ attempts[1].file = cli.rnote_files[1]
                /\ attempts[1].output = cli.output_file.val
                /\ attempts[1].ok => (runRet = "Ok" /\ Count(stdout, "Export failed") = 0)
                /\ ~attempts[1].ok =>
                        /\ runRet = "Err"
                        /\ Count(stdout, "Export failed") = 1
                        /\ Count(stdout, "Export finished!") = 0
        ELSE /\ Len(attempts) = Len(cli.rnote_files)
             /\ \A i \in 1 .. Len(attempts) : attempts[i].file = cli.rnote_files[i]
             /\ Count(stdout, "Export failed")
                    = Cardinality({ i \in 1 .. Len(attempts) : ~attempts[i].ok })
             /\ \A i \in 1 .. Len(attempts) :
                    progress[i] = IF attempts[i].ok THEN "finished" ELSE "abandoned"
             /\ stdout[Len(stdout)] = "Export finished!"
             /\ Count(stdout, "Export finished!") = 1
             /\ runRet = "Ok"

BatchContinuedAfterFailureReached ==
    /\ runPc = "done"
    /\ ~cli.output_file.some
    /\ Len(attempts) = 3
    /\ ~attempts[1].ok
    /\ attempts[2].ok
    /\ ~attempts[3].ok
    /\ runRet = "Ok"

====
